---- MODULE Spec2Model ----
(***************************************************************************)
(* Vortexbot (src/app.py): the DCA engine, the periodic market-sync tick,  *)
(* the bot operations of the HTTP layer and the two persistence files.     *)
(*                                                                         *)
(* Numbers.  Python floats are modelled as exact rationals [n, d] in       *)
(* lowest terms (d > 0): every +, -, *, /, ** and comparison of the source *)
(* is carried out exactly; binary rounding of floats is not modelled.      *)
(*                                                                         *)
(* Threads.  The scheduler runs update_market_data in worker threads       *)
(* (TickSlots), Flask serves requests in its own thread (req).  No code    *)
(* outside save_data takes DATA_LOCK, so the statements of the tick and of *)
(* a request interleave; each action below is one group of statements.     *)
(*                                                                         *)
(* Objects.  A bot is a Python dict shared by reference between the        *)
(* workspace's "bots" dict and the local variable "bot" of a running       *)
(* engine call, so bots live in a heap and are named by object ids.        *)
(***************************************************************************)
EXTENDS Integers, Sequences, FiniteSets, TLC

VARIABLES
    heap,        \* object id -> bot dict (FreeObj when unallocated)
    bots,        \* DATA['users'][GLOBAL_USER_ID]['bots']: symbol -> object id
    fin,         \* ...['financials']: total_balance, reserved_capital, net_pnl
    history,     \* ...['history']: recent events, newest first
    cache,       \* MARKET_CACHE['ticker']: key -> last price
    histFile,    \* bot_history.json
    storage,     \* bot_storage.json
    dataLock,    \* DATA_LOCK: "free" or the thread holding it
    tick,        \* per scheduler worker: position and locals of update_market_data
    req,         \* the request thread: position and locals of the handler
    nTicks,      \* ticks started so far
    nReqs,       \* requests received so far
    historyLock, \* HISTORY_LOCK: "free" or the caller holding it
    hcall,       \* per caller of save_trade_history: position and locals
    tmpFile,     \* bot_storage.json.tmp
    scall,       \* per caller of save_data: position and locals
    calc         \* operands and result of one entry-price averaging

vars == <<heap, bots, fin, history, cache, histFile, storage, dataLock,
          tick, req, nTicks, nReqs, historyLock, hcall, tmpFile, scall, calc>>

\* State of the statement-level views of save_data and of the averaging
detailVars == <<tmpFile, scall, calc>>

ledgerVars == <<heap, bots, fin, history, cache, storage, dataLock,
                tick, req, nTicks, nReqs>>

-----------------------------------------------------------------------------
(* Bounds of the model *)

MaxTicks == 2
MaxReqs == 2
MaxAppends == 4
MaxSaves == 2

\* Calls of save_data per thread, and entries appended to the history file,
\* where the two locks are followed
MaxLockCalls == 1

-----------------------------------------------------------------------------
(* Exact rational arithmetic *)

Abs(x) == IF x < 0 THEN -x ELSE x

RECURSIVE GCD(_, _)
GCD(a, b) == IF b = 0 THEN a ELSE GCD(b, a % b)

R(n, d) ==
    LET g == GCD(Abs(n), d)
    IN  [n |-> n \div g, d |-> d \div g]

Zero == R(0, 1)
Hundred == R(100, 1)

RNeg(a) == [n |-> -a.n, d |-> a.d]

RAdd(a, b) ==
    LET g == GCD(a.d, b.d)
    IN  R(a.n * (b.d \div g) + b.n * (a.d \div g), (a.d \div g) * b.d)

RSub(a, b) == RAdd(a, RNeg(b))

RMul(a, b) ==
    LET g1 == GCD(Abs(a.n), b.d)
        g2 == GCD(Abs(b.n), a.d)
    IN  IF a.n = 0 \/ b.n = 0 THEN Zero
        ELSE R((a.n \div g1) * (b.n \div g2), (a.d \div g2) * (b.d \div g1))

\* a / b for b # 0
RDiv(a, b) ==
    IF b.n > 0 THEN RMul(a, [n |-> b.d, d |-> b.n])
    ELSE RMul(a, [n |-> -b.d, d |-> -b.n])

RLt(a, b) == a.n * b.d < b.n * a.d
RLe(a, b) == a.n * b.d <= b.n * a.d

RECURSIVE RPow(_, _)
RPow(a, k) == IF k = 0 THEN R(1, 1) ELSE RMul(a, RPow(a, k - 1))

\* Python round(x, 2): the nearest multiple of 1/100, ties to the even one
Round2(x) ==
    LET q == RMul(x, Hundred)
        f == q.n \div q.d
        r == q.n - f * q.d
        up == \/ 2 * r > q.d
              \/ 2 * r = q.d /\ f % 2 # 0
    IN  R(IF up THEN f + 1 ELSE f, 100)

-----------------------------------------------------------------------------
(* Python dicts as functions with a finite domain *)

EmptyDict == [k \in {} |-> 0]

Get(d, k, dflt) == IF k \in DOMAIN d THEN d[k] ELSE dflt

SetDefault(d, k, v) == IF k \in DOMAIN d THEN d ELSE d @@ (k :> v)

Put(d, k, v) == [x \in DOMAIN d \cup {k} |-> IF x = k THEN v ELSE d[x]]

Del(d, k) == [x \in DOMAIN d \ {k} |-> d[x]]

Values(d) == {d[k] : k \in DOMAIN d}

-----------------------------------------------------------------------------
(* Symbols, prices and request inputs *)

\* Trading pairs the requests name, in both separator forms
Symbols == {"BTC-USDT", "BTC/USDT"}

\* str.replace('-', '/') and str.replace('/', '-') on the strings above
DashToSlash(s) == IF s = "BTC-USDT" THEN "BTC/USDT" ELSE s
SlashToDash(s) == IF s = "BTC/USDT" THEN "BTC-USDT" ELSE s
HasDash(s) == s = "BTC-USDT"
HasSlash(s) == s \in {"BTC/USDT", "ETH/USDT", "SOL/USDT", "BNB/USDT", "XRP/USDT"}

\* Last prices the exchange may report
Prices == {80, 100}

\* Amounts a request may name ("amount" / "investment")
Amounts == {20}

WatchList == {"BTC/USDT", "ETH/USDT", "SOL/USDT", "BNB/USDT", "XRP/USDT"}

\* Pairs for which the modelled exchange answers
Listed == {"BTC/USDT"}

FallbackPrice == 50000
InitialBalance == 10000
HistoryCap == 1000
RecentCap == 50
max_instances == 1

\* dca_config built by start_strategy
StartConfig(amount) ==
    [base_order |-> amount, safety_order |-> R(40, 1), max_safety_orders |-> 15,
     volume_scale |-> R(21, 20), step_scale |-> R(1, 1),
     price_deviation |-> R(2, 1), take_profit |-> R(3, 2),
     stop_action |-> "close", stop_loss_enabled |-> FALSE, loop_enabled |-> TRUE]

\* dca_config objects a create_bot request may carry (any subset of the keys)
CreateConfigs ==
    { [safety_order |-> R(40, 1), max_safety_orders |-> 1, volume_scale |-> R(1, 1),
       step_scale |-> R(1, 1), price_deviation |-> R(2, 1), take_profit |-> R(3, 2)],
      [max_safety_orders |-> 0, take_profit |-> Zero, stop_loss |-> Zero,
       stop_loss_enabled |-> TRUE],
      [max_safety_orders |-> 0, take_profit |-> Zero, stop_loss |-> Zero,
       stop_loss_enabled |-> TRUE, loop_enabled |-> TRUE],
      [max_safety_orders |-> 2, volume_scale |-> R(2, 1), step_scale |-> R(2, 1),
       price_deviation |-> R(10, 1), take_profit |-> R(25, 1),
       stop_loss |-> R(20, 1), stop_loss_enabled |-> TRUE, loop_enabled |-> TRUE] }

\* dca_config.setdefault(...) of create_bot
CreateDefaults(cfg, base_order) ==
    SetDefault(SetDefault(SetDefault(SetDefault(SetDefault(SetDefault(SetDefault(
        cfg, "base_order", base_order),
        "safety_order", R(40, 1)),
        "max_safety_orders", 15),
        "volume_scale", R(21, 20)),
        "step_scale", R(1, 1)),
        "price_deviation", R(2, 1)),
        "take_profit", R(3, 2))

NewBot(symbol, price, investment, cfg) ==
    [symbol |-> symbol, status |-> "running", entry_price |-> price,
     current_price |-> price, investment |-> investment, pnl |-> Zero,
     dca_config |-> cfg, safety_orders_filled |-> 0]

-----------------------------------------------------------------------------
(* The DCA engine's arithmetic and conditions (calculate_dca_logic) *)

PnlPercent(current_price, entry_price) ==
    RMul(RDiv(RSub(current_price, entry_price), entry_price), Hundred)

RequiredDrop(cfg, so_count) ==
    RMul(Get(cfg, "price_deviation", R(3, 2)),
         RPow(Get(cfg, "step_scale", R(3, 2)), so_count))

\* Mutant: the count is compared with <= instead of <
SafetyOrderDueOffByOne(so_count, max_so, pnl_percent, required_drop) ==
    so_count <= max_so /\ RLt(pnl_percent, RNeg(required_drop))

SafetyOrderDue(so_count, max_so, pnl_percent, required_drop) ==
    so_count < max_so /\ RLt(pnl_percent, RNeg(required_drop))

\* Mutant: the volume is scaled by the count after the increment
SoVolumeNext(cfg, so_count) ==
    RMul(Get(cfg, "safety_order", Zero),
         RPow(Get(cfg, "volume_scale", R(3, 2)), so_count + 1))

SoVolume(cfg, so_count) ==
    RMul(Get(cfg, "safety_order", Zero),
         RPow(Get(cfg, "volume_scale", R(3, 2)), so_count))

\* Mutant: the new entry price is the mean of the two prices
AveragedEntryOfPrices(investment, so_volume, entry_price, current_price) ==
    RDiv(RAdd(entry_price, current_price), R(2, 1))

\* investment is the investment after the safety order was added
AveragedEntry(investment, so_volume, entry_price, current_price) ==
    LET current_coins == RDiv(RSub(investment, so_volume), entry_price)
        new_coins == RDiv(so_volume, current_price)
    IN  RDiv(investment, RAdd(current_coins, new_coins))

TakeProfitDue(pnl_percent, cfg) ==
    RLe(Get(cfg, "take_profit", R(3, 2)), pnl_percent)

StopLossDue(pnl_percent, cfg) ==
    /\ Get(cfg, "stop_loss_enabled", FALSE)
    /\ RLe(pnl_percent, RNeg(Get(cfg, "stop_loss", R(5, 1))))

\* investment * (pnl_percent / 100)
PnlAmount(investment, pnl_percent) ==
    RMul(investment, RDiv(pnl_percent, Hundred))

\* Mutant: the close forgets to release the investment
ReleaseNothing(f, investment) == f

\* reserved_capital -= bot['investment'] at a close
ReleaseReserved(f, investment) ==
    [f EXCEPT !.reserved_capital = RSub(@, investment)]

\* Mutant: the amount reaches total_balance only
RealizeBalanceOnly(f, amount) == [f EXCEPT !.total_balance = RAdd(@, amount)]

\* total_balance += amount; net_pnl += amount
Realize(f, amount) ==
    [f EXCEPT !.total_balance = RAdd(@, amount), !.net_pnl = RAdd(@, amount)]

Event(symbol, kind, k) == [symbol |-> symbol, event |-> kind, n |-> k]

\* user_data['history'].insert(0, e)
HistoryInsert(h, e) == <<e>> \o h

\* if len(history) > 50: history.pop()
HistoryPop(h) == IF Len(h) > RecentCap THEN SubSeq(h, 1, Len(h) - 1) ELSE h

-----------------------------------------------------------------------------
(* bot_history.json and save_trade_history.  The list is kept run-length  *)
(* encoded: "old" entries written by earlier runs, then the entries "new" *)
(* appended since.                                                         *)

EmptyList == [old |-> 0, new |-> <<>>]

ListLen(l) == l.old + Len(l.new)

\* json.load of the file; [] when it is absent or not valid JSON
ReadHistory(file) ==
    IF file.state = "valid" THEN [old |-> file.old, new |-> file.new] ELSE EmptyList

ListAppend(l, e) == [l EXCEPT !.new = Append(@, e)]

\* l[-k:]
KeepLast(l, k) ==
    LET drop == ListLen(l) - k
    IN  IF drop <= 0 THEN l
        ELSE IF drop <= l.old THEN [l EXCEPT !.old = @ - drop]
        ELSE [old |-> 0, new |-> SubSeq(l.new, drop - l.old + 1, Len(l.new))]

\* l[:k]
KeepFirst(l, k) ==
    IF ListLen(l) <= k THEN l
    ELSE IF k <= l.old THEN [old |-> k, new |-> <<>>]
    ELSE [l EXCEPT !.new = SubSeq(@, 1, k - l.old)]

\* Mutant: the first 1000 entries are kept instead of the last
TrimHistoryHead(l) == IF ListLen(l) > HistoryCap THEN KeepFirst(l, HistoryCap) ELSE l

TrimHistory(l) == IF ListLen(l) > HistoryCap THEN KeepLast(l, HistoryCap) ELSE l

WriteHistory(l) == [state |-> "valid", old |-> l.old, new |-> l.new]

\* One whole call, as it runs under HISTORY_LOCK
SaveTradeHistory(file, entry) ==
    WriteHistory(TrimHistory(ListAppend(ReadHistory(file), entry)))

-----------------------------------------------------------------------------
(* Threads, objects and the initial state *)

\* Worker threads the scheduler may run update_market_data in, in the order
\* the executor hands them out
SlotOrder == <<"tick1", "tick2">>
TickSlots == {SlotOrder[k] : k \in 1 .. Len(SlotOrder)}

ObjIds == 1 .. (Cardinality(Symbols) + Cardinality(TickSlots))

FreeObj == [status |-> "free"]

IdleTick ==
    [pc |-> "idle", targets |-> {}, visited |-> {}, size |-> 0, changes |-> FALSE,
     bot |-> 0, current_price |-> Zero, entry_price |-> Zero, pnl_percent |-> Zero,
     fetch_error |-> FALSE]

IdleReq ==
    [pc |-> "idle", op |-> "none", symbol |-> "", price |-> Zero, amount |-> Zero,
     cfg |-> EmptyDict, fetched |-> FALSE, error |-> "", net_pnl |-> Zero]

\* return jsonify({"status": "error", ...}), 400 / 404
ErrorReply(op, symbol, message) ==
    [IdleReq EXCEPT !.pc = "error", !.op = op, !.symbol = symbol, !.error = message]

AbsentFile == [state |-> "absent", old |-> 0, new |-> <<>>]

HistCallers == {"engine", "panic_sell"}

\* The functions that take HISTORY_LOCK: save_trade_history from its two
\* callers, and the /api/history handler
HistUsers == HistCallers \cup {"get_trade_history"}

\* error: the last call logged "Failed to save trade history"
IdleCall == [pc |-> "idle", entry |-> Event("", "", 0), list |-> EmptyList,
             error |-> FALSE]

\* bot_storage.json or its .tmp before any save
AbsentStorage == [exists |-> FALSE]

\* Threads that call save_data: the tick's worker, a request handler and the
\* scheduler's periodic_save job
SaveCallers == {"tick1", "req", "periodic_save"}

\* id: the call's number for this caller; error: "Failed to save storage"
IdleSave == [pc |-> "idle", id |-> 0, error |-> FALSE]

\* prior: bot['investment'] when the engine was called
IdleCalc == [pc |-> "idle", prior |-> Zero, investment |-> Zero, so_volume |-> Zero,
             entry_price |-> Zero, current_price |-> Zero, result |-> Zero]

\* Objects referenced from the bots dict or from a running engine call
Live(b, t) == Values(b) \cup {t[i].bot : i \in TickSlots}

\* Unreferenced dicts are reclaimed
GC(h, b, t) == [o \in ObjIds |-> IF o \in Live(b, t) THEN h[o] ELSE FreeObj]

\* A new dict: any unreferenced object (the lowest id is taken)
Alloc(b, t) ==
    CHOOSE o \in ObjIds :
        o \notin Live(b, t) /\ \A p \in ObjIds : p \notin Live(b, t) => o <= p

\* The module's state once load_data has run, but for the recent history, the
\* storage file and the averaging's operands
InitWorkspace ==
    /\ heap = [o \in ObjIds |-> FreeObj]
    /\ bots = EmptyDict
    /\ fin = [total_balance |-> R(InitialBalance, 1), reserved_capital |-> Zero,
              net_pnl |-> Zero]
    /\ cache = EmptyDict
    /\ dataLock = "free"
    /\ tick = [i \in TickSlots |-> IdleTick]
    /\ req = IdleReq
    /\ nTicks = 0
    /\ nReqs = 0
    /\ historyLock = "free"
    /\ hcall = [c \in HistUsers |-> IdleCall]
    /\ tmpFile = AbsentStorage
    /\ scall = [c \in SaveCallers |-> IdleSave]

\* load_data on a fresh installation: the global workspace is created
InitLedger ==
    InitWorkspace /\ history = <<>> /\ storage = AbsentStorage /\ calc = IdleCalc

Init == InitLedger /\ histFile = AbsentFile

-----------------------------------------------------------------------------
(* save_data *)

\* The file after json.dump(DATA, f) and the rename; of the text written only
\* its presence is kept
Snapshot == [exists |-> TRUE]

\* with DATA_LOCK: blocks until the lock is free
LockFree(lock) == lock = "free"

ReqSaveAcquire ==
    /\ req.pc = "save_acq"
    /\ LockFree(dataLock)
    /\ dataLock' = "req"
    /\ req' = [req EXCEPT !.pc = "save_write"]
    /\ UNCHANGED <<heap, bots, fin, history, cache, histFile, storage, tick,
                   nTicks, nReqs, historyLock, hcall, detailVars>>

ReqSaveWrite ==
    /\ req.pc = "save_write"
    /\ storage' = Snapshot
    /\ dataLock' = "free"
    /\ req' = IdleReq
    /\ UNCHANGED <<heap, bots, fin, history, cache, histFile, tick,
                   nTicks, nReqs, historyLock, hcall, detailVars>>

-----------------------------------------------------------------------------
(* Requests: start_strategy, create_bot, stop_bot, panic_sell *)

\* Mutant: the handlers do not look for a running bot
DuplicateIgnored(symbol) == FALSE

\* symbol in bots and bots[symbol]['status'] == 'running'
DuplicateActive(symbol) ==
    symbol \in DOMAIN bots /\ heap[bots[symbol]].status = "running"

\* start_strategy up to the price: validation, duplicate check, fetch_ticker
\* with its fallbacks (the cache, then 50000.0)
StartStrategyCheck(symbol, amount, fetched, p) ==
    /\ req.pc = "idle"
    /\ nReqs < MaxReqs
    /\ nReqs' = nReqs + 1
    /\ IF symbol = "---"
       THEN req' = ErrorReply("start_strategy", symbol, "No valid symbol selected")
       ELSE IF DuplicateActive(symbol)
       THEN req' = ErrorReply("start_strategy", symbol, "already active")
       ELSE LET price == IF fetched THEN R(p, 1)
                         ELSE IF symbol \in DOMAIN cache THEN cache[symbol]
                         ELSE R(FallbackPrice, 1)
            IN  req' = [pc |-> "insert", op |-> "start_strategy", symbol |-> symbol,
                        price |-> price, amount |-> R(amount, 1),
                        cfg |-> StartConfig(R(amount, 1)), fetched |-> fetched,
                        error |-> "", net_pnl |-> Zero]
    /\ UNCHANGED <<heap, bots, fin, history, cache, histFile, storage, dataLock,
                   tick, nTicks, historyLock, hcall, detailVars>>

\* create_bot up to the price: normalisation, defaults, duplicate check,
\* fetch_ticker with its fallback (the cache, else an error)
CreateBotCheck(raw, investment, cfg, fetched, p) ==
    LET symbol == SlashToDash(raw)
        dca_config == CreateDefaults(cfg, R(investment, 1))
    IN  /\ req.pc = "idle"
        /\ nReqs < MaxReqs
        /\ nReqs' = nReqs + 1
        /\ IF DuplicateActive(symbol)
           THEN req' = ErrorReply("create_bot", symbol, "Bot already running")
           ELSE IF ~fetched /\ symbol \notin DOMAIN cache
           THEN req' = ErrorReply("create_bot", symbol, "Invalid Pair (Fetch Failed)")
           ELSE req' = [pc |-> "insert", op |-> "create_bot", symbol |-> symbol,
                        price |-> IF fetched THEN R(p, 1) ELSE cache[symbol],
                        amount |-> R(investment, 1), cfg |-> dca_config,
                        fetched |-> fetched, error |-> "", net_pnl |-> Zero]
        /\ UNCHANGED <<heap, bots, fin, history, cache, histFile, storage, dataLock,
                       tick, nTicks, historyLock, hcall, detailVars>>

\* bots[symbol] = new_bot; reserved_capital += investment (both handlers)
InsertBot ==
    /\ req.pc = "insert"
    /\ LET o == Alloc(bots, tick)
       IN  /\ bots' = Put(bots, req.symbol, o)
           /\ heap' = GC([heap EXCEPT ![o] =
                             NewBot(req.symbol, req.price, req.amount, req.cfg)],
                         bots', tick)
    /\ fin' = [fin EXCEPT !.reserved_capital = RAdd(@, req.amount)]
    /\ req' = [req EXCEPT !.pc = "save_acq"]
    /\ UNCHANGED <<history, cache, histFile, storage, dataLock, tick,
                   nTicks, nReqs, historyLock, hcall, detailVars>>

\* Mutant: stop_bot realises the stored pnl as panic_sell does
StopBotRealizes(f, bot) ==
    ReleaseReserved(Realize(f, PnlAmount(bot.investment, bot.pnl)), bot.investment)

\* The financials after stop_bot: only the reservation is released
StopBotFinancials(f, bot) == ReleaseReserved(f, bot.investment)

\* stop_bot: reserved_capital -= bots[symbol]['investment']
StopBotRelease(symbol) ==
    /\ req.pc = "idle"
    /\ nReqs < MaxReqs
    /\ nReqs' = nReqs + 1
    /\ IF symbol \in DOMAIN bots
       THEN /\ fin' = StopBotFinancials(fin, heap[bots[symbol]])
            /\ req' = [IdleReq EXCEPT !.pc = "del", !.op = "stop_bot",
                                              !.symbol = symbol]
       ELSE /\ fin' = fin
            /\ req' = ErrorReply("stop_bot", symbol, "404")
    /\ UNCHANGED <<heap, bots, history, cache, histFile, storage, dataLock, tick,
                   nTicks, historyLock, hcall, detailVars>>

\* panic_sell: realise the stored pnl and release the investment
PanicSellRealize(symbol) ==
    /\ req.pc = "idle"
    /\ nReqs < MaxReqs
    /\ nReqs' = nReqs + 1
    /\ IF symbol \in DOMAIN bots
       THEN LET bot == heap[bots[symbol]]
                pnl_amount == PnlAmount(bot.investment, bot.pnl)
            IN  /\ fin' = ReleaseReserved(Realize(fin, pnl_amount), bot.investment)
                /\ req' = [IdleReq EXCEPT !.pc = "log", !.op = "panic_sell",
                                                  !.symbol = symbol]
       ELSE /\ fin' = fin
            /\ req' = ErrorReply("panic_sell", symbol, "404")
    /\ UNCHANGED <<heap, bots, history, cache, histFile, storage, dataLock, tick,
                   nTicks, historyLock, hcall, detailVars>>

\* panic_sell: save_trade_history({... "Panic Sell" ...})
PanicSellLog ==
    /\ req.pc = "log"
    /\ histFile' = SaveTradeHistory(histFile,
                       Event(heap[bots[req.symbol]].symbol, "Panic Sell", 0))
    /\ req' = [req EXCEPT !.pc = "del"]
    /\ UNCHANGED <<heap, bots, fin, history, cache, storage, dataLock, tick,
                   nTicks, nReqs, historyLock, hcall, detailVars>>

\* del bots[symbol] (stop_bot and panic_sell)
DeleteBot ==
    /\ req.pc = "del"
    /\ bots' = Del(bots, req.symbol)
    /\ heap' = GC(heap, bots', tick)
    /\ req' = [req EXCEPT !.pc = "save_acq"]
    /\ UNCHANGED <<fin, history, cache, histFile, storage, dataLock, tick,
                   nTicks, nReqs, historyLock, hcall, detailVars>>

\* The handler returns its error response, or the dashboard's data
ReqReturn ==
    /\ req.pc \in {"error", "reply"}
    /\ req' = IdleReq
    /\ UNCHANGED <<heap, bots, fin, history, cache, histFile, storage, dataLock,
                   tick, nTicks, nReqs, historyLock, hcall, detailVars>>

\* The mock ticker dashboard_data installs when the cache is empty
MockTicker ==
    [k \in {"BTC-USDT", "ETH-USDT", "SOL-USDT", "BNB-USDT", "XRP-USDT"} |->
        CASE k = "BTC-USDT" -> R(FallbackPrice, 1)
          [] k = "ETH-USDT" -> R(3000, 1)
          [] k = "SOL-USDT" -> R(100, 1)
          [] k = "BNB-USDT" -> R(400, 1)
          [] k = "XRP-USDT" -> R(1, 2)]

\* sum(b['investment'] * (b['pnl'] / 100) for the running bots), over the
\* symbols S of the bots dict
RECURSIVE UnrealizedPnl(_)
UnrealizedPnl(S) ==
    IF S = {} THEN Zero
    ELSE LET s == CHOOSE x \in S : TRUE
             bot == heap[bots[s]]
         IN  RAdd(IF bot.status = "running" THEN PnlAmount(bot.investment, bot.pnl)
                  ELSE Zero,
                  UnrealizedPnl(S \ {s}))

\* Mutant: the dashboard stores the net_pnl it reports
DashboardStoresReported(f, unrealized_pnl) ==
    [f EXCEPT !.net_pnl = RAdd(@, unrealized_pnl)]

\* user['financials'] after dashboard_data: the reported net_pnl, which adds
\* the unrealized pnl, goes into a new dict; the stored one is only read
DashboardStored(f, unrealized_pnl) == f

\* dashboard_data: the reported net_pnl is the stored one plus the unrealized
Dashboard ==
    /\ req.pc = "idle"
    /\ nReqs < MaxReqs
    /\ nReqs' = nReqs + 1
    /\ LET unrealized_pnl == UnrealizedPnl(DOMAIN bots)
       IN  /\ fin' = DashboardStored(fin, unrealized_pnl)
           /\ req' = [IdleReq EXCEPT !.pc = "reply", !.op = "dashboard",
                                     !.net_pnl = RAdd(fin.net_pnl, unrealized_pnl)]
    /\ cache' = IF DOMAIN cache = {} THEN MockTicker ELSE cache
    /\ UNCHANGED <<heap, bots, history, histFile, storage, dataLock, tick,
                   nTicks, historyLock, hcall, detailVars>>

-----------------------------------------------------------------------------
(* The scheduler and update_market_data *)

RunningInstances(t) == Cardinality({i \in TickSlots : t[i].pc # "idle"})

\* Mutant: the job is added without a limit on its instances
InstanceLimitIgnored(running) == FALSE

\* APScheduler's max_instances: a due run is skipped while this holds
InstanceLimitReached(running) == running >= max_instances

FirstIdle(t) ==
    SlotOrder[CHOOSE k \in 1 .. Len(SlotOrder) :
                 /\ t[SlotOrder[k]].pc = "idle"
                 /\ \A j \in 1 .. k - 1 : t[SlotOrder[j]].pc # "idle"]

\* The symbols requested from the exchange
Targets ==
    LET active == {heap[o].symbol : o \in {x \in Values(bots) : heap[x].status = "running"}}
        all == WatchList \cup {DashToSlash(sym) : sym \in {x \in active : HasDash(x)}}
    IN  {t \in all : HasSlash(t)}

\* The job is due and below max_instances: a worker starts it and collects
\* the targets
TickStart(i) ==
    /\ nTicks < MaxTicks
    /\ \E j \in TickSlots : tick[j].pc = "idle"
    /\ ~InstanceLimitReached(RunningInstances(tick))
    /\ i = FirstIdle(tick)
    /\ nTicks' = nTicks + 1
    /\ tick' = [tick EXCEPT ![i] = [IdleTick EXCEPT !.pc = "fetch", !.targets = Targets]]
    /\ UNCHANGED <<heap, bots, fin, history, cache, histFile, storage, dataLock,
                   req, nReqs, historyLock, hcall, detailVars>>

\* The job is due while max_instances runs are in progress: the run is skipped
TickSkipped ==
    /\ nTicks < MaxTicks
    /\ InstanceLimitReached(RunningInstances(tick))
    /\ UNCHANGED vars

\* for symbol, ticker in tickers.items(): cache[symbol.replace('/', '-')] = ...
UpdateCache(c, tickers) ==
    LET keys == {SlashToDash(x) : x \in DOMAIN tickers}
    IN  [k \in DOMAIN c \cup keys |->
            IF k \in keys
            THEN R(tickers[CHOOSE x \in DOMAIN tickers : SlashToDash(x) = k], 1)
            ELSE c[k]]

\* for b_sym, bot in bots.items(): the iterator is created
BeginLoop(t) == [t EXCEPT !.pc = "loop", !.visited = {}, !.size = Cardinality(DOMAIN bots)]

\* fetch_tickers answered, possibly for a part of the targets
TickFetched(i, tickers) ==
    /\ tick[i].pc = "fetch"
    /\ DOMAIN tickers \subseteq tick[i].targets
    /\ cache' = UpdateCache(cache, tickers)
    /\ tick' = [tick EXCEPT ![i] = BeginLoop(@)]
    /\ UNCHANGED <<heap, bots, fin, history, histFile, storage, dataLock,
                   req, nTicks, nReqs, historyLock, hcall, detailVars>>

\* Mutant: a failed fetch ends the tick
FetchErrorAborts(t) == IdleTick

\* except Exception: the error is logged and the tick goes on to the loop
FetchErrorContinues(t) == BeginLoop([t EXCEPT !.fetch_error = TRUE])

\* fetch_tickers raised: "Using cached values if available"
TickFetchFailed(i) ==
    /\ tick[i].pc = "fetch"
    /\ tick' = [tick EXCEPT ![i] = FetchErrorContinues(@)]
    /\ UNCHANGED <<heap, bots, fin, history, cache, histFile, storage, dataLock,
                   req, nTicks, nReqs, historyLock, hcall, detailVars>>

\* Mutant: the loop does not filter on the status
TickSelectsAll(bot) == TRUE

\* if bot['status'] == 'running'
TickSelects(bot) == bot.status = "running"

\* ticker_key: b_sym, or b_sym.replace('-', '/') when b_sym is not cached
TickerKey(b_sym) == IF b_sym \in DOMAIN cache THEN b_sym ELSE DashToSlash(b_sym)

\* The dict changed size since the iterator was created: RuntimeError, caught
\* as "Global Sync Error"; the tick ends without saving
TickIterError(i) ==
    /\ tick[i].pc = "loop"
    /\ Cardinality(DOMAIN bots) # tick[i].size
    /\ tick' = [tick EXCEPT ![i] = IdleTick]
    /\ UNCHANGED <<heap, bots, fin, history, cache, histFile, storage, dataLock,
                   req, nTicks, nReqs, historyLock, hcall, detailVars>>

\* The next bot of the loop; a running bot with a cached price enters the
\* engine, which refreshes pnl and current_price (step 1)
TickVisit(i, b_sym) ==
    /\ tick[i].pc = "loop"
    /\ Cardinality(DOMAIN bots) = tick[i].size
    /\ b_sym \in DOMAIN bots \ tick[i].visited
    /\ LET o == bots[b_sym]
           bot == heap[o]
           key == TickerKey(b_sym)
       IN  IF TickSelects(bot) /\ key \in DOMAIN cache
           THEN LET price == cache[key]
                    pnl_percent == PnlPercent(price, bot.entry_price)
                IN  /\ heap' = [heap EXCEPT ![o].pnl = Round2(pnl_percent),
                                            ![o].current_price = price]
                    /\ tick' = [tick EXCEPT ![i] =
                           [@ EXCEPT !.pc = "so", !.visited = @ \cup {b_sym},
                                     !.bot = o, !.current_price = price,
                                     !.entry_price = bot.entry_price,
                                     !.pnl_percent = pnl_percent]]
           ELSE /\ heap' = heap
                /\ tick' = [tick EXCEPT ![i].visited = @ \cup {b_sym}]
    /\ UNCHANGED <<bots, fin, history, cache, histFile, storage, dataLock,
                   req, nTicks, nReqs, historyLock, hcall, detailVars>>

\* Step 2 of the engine: the safety order
EngineSafetyOrder(i) ==
    /\ tick[i].pc = "so"
    /\ LET o == tick[i].bot
           bot == heap[o]
           cfg == bot.dca_config
           so_count == bot.safety_orders_filled
           max_so == Get(cfg, "max_safety_orders", 15)
           required_drop == RequiredDrop(cfg, so_count)
           so_volume == SoVolume(cfg, so_count)
           investment == RAdd(bot.investment, so_volume)
           entry == Event(bot.symbol, "DCA Buy", so_count + 1)
       IN  IF SafetyOrderDue(so_count, max_so, tick[i].pnl_percent, required_drop)
           THEN /\ heap' = [heap EXCEPT
                       ![o].safety_orders_filled = so_count + 1,
                       ![o].investment = investment,
                       ![o].entry_price = AveragedEntry(investment, so_volume,
                                              tick[i].entry_price, tick[i].current_price)]
                /\ fin' = [fin EXCEPT !.reserved_capital = RAdd(@, so_volume)]
                /\ history' = HistoryPop(HistoryInsert(history, entry))
                /\ histFile' = SaveTradeHistory(histFile, entry)
           ELSE UNCHANGED <<heap, fin, history, histFile>>
    /\ tick' = [tick EXCEPT ![i].pc = "tp"]
    /\ UNCHANGED <<bots, cache, storage, dataLock, req, nTicks, nReqs,
                   historyLock, hcall, detailVars>>

\* Step 3 of the engine: the take-profit close
EngineTakeProfit(i) ==
    /\ tick[i].pc = "tp"
    /\ LET o == tick[i].bot
           bot == heap[o]
           profit_amount == PnlAmount(bot.investment, tick[i].pnl_percent)
           entry == Event(bot.symbol, "Take Profit", 0)
       IN  IF TakeProfitDue(tick[i].pnl_percent, bot.dca_config)
           THEN /\ fin' = ReleaseReserved(Realize(fin, profit_amount), bot.investment)
                /\ history' = HistoryInsert(history, entry)
                /\ histFile' = SaveTradeHistory(histFile, entry)
                /\ tick' = [tick EXCEPT ![i].pc = "restart"]
           ELSE /\ UNCHANGED <<fin, history, histFile>>
                /\ tick' = [tick EXCEPT ![i].pc = "sl"]
    /\ UNCHANGED <<heap, bots, cache, storage, dataLock, req, nTicks, nReqs,
                   historyLock, hcall, detailVars>>

\* Step 3, after the close: restart the cycle or complete the bot
EngineLoopRestart(i) ==
    /\ tick[i].pc = "restart"
    /\ LET o == tick[i].bot
           bot == heap[o]
           cfg == bot.dca_config
           base_order == Get(cfg, "base_order", R(20, 1))
       IN  IF Get(cfg, "loop_enabled", FALSE)
           THEN /\ heap' = [heap EXCEPT ![o].status = "running",
                                        ![o].investment = base_order,
                                        ![o].entry_price = tick[i].current_price,
                                        ![o].safety_orders_filled = 0]
                /\ fin' = [fin EXCEPT !.reserved_capital = RAdd(@, base_order)]
                /\ history' = HistoryInsert(history, Event(bot.symbol, "Loop Restart", 0))
           ELSE /\ heap' = [heap EXCEPT ![o].status = "completed"]
                /\ UNCHANGED <<fin, history>>
    /\ tick' = [tick EXCEPT ![i].pc = "sl"]
    /\ UNCHANGED <<bots, cache, histFile, storage, dataLock, req, nTicks, nReqs,
                   historyLock, hcall, detailVars>>

\* Step 4 of the engine: the stop loss; the call returns and changes = True
EngineStopLoss(i) ==
    /\ tick[i].pc = "sl"
    /\ tick' = [tick EXCEPT ![i] =
           [IdleTick EXCEPT !.pc = "loop", !.targets = tick[i].targets,
                            !.visited = tick[i].visited, !.size = tick[i].size,
                            !.changes = TRUE, !.fetch_error = tick[i].fetch_error]]
    /\ LET o == tick[i].bot
           bot == heap[o]
           loss_amount == PnlAmount(bot.investment, tick[i].pnl_percent)
           entry == Event(bot.symbol, "Stop Loss", 0)
       IN  IF StopLossDue(tick[i].pnl_percent, bot.dca_config)
           THEN /\ heap' = GC([heap EXCEPT ![o].status = "stopped_loss"], bots, tick')
                /\ fin' = ReleaseReserved(Realize(fin, loss_amount), bot.investment)
                /\ history' = HistoryInsert(history, entry)
                /\ histFile' = SaveTradeHistory(histFile, entry)
           ELSE /\ heap' = GC(heap, bots, tick')
                /\ UNCHANGED <<fin, history, histFile>>
    /\ UNCHANGED <<bots, cache, storage, dataLock, req, nTicks, nReqs,
                   historyLock, hcall, detailVars>>

\* The loop is over: save_data() if changes, else the tick ends
TickLoopEnd(i) ==
    /\ tick[i].pc = "loop"
    /\ Cardinality(DOMAIN bots) = tick[i].size
    /\ DOMAIN bots \subseteq tick[i].visited
    /\ tick' = [tick EXCEPT ![i] =
           IF tick[i].changes THEN [IdleTick EXCEPT !.pc = "save_acq"] ELSE IdleTick]
    /\ UNCHANGED <<heap, bots, fin, history, cache, histFile, storage, dataLock,
                   req, nTicks, nReqs, historyLock, hcall, detailVars>>

TickSaveAcquire(i) ==
    /\ tick[i].pc = "save_acq"
    /\ LockFree(dataLock)
    /\ dataLock' = i
    /\ tick' = [tick EXCEPT ![i].pc = "save_write"]
    /\ UNCHANGED <<heap, bots, fin, history, cache, histFile, storage,
                   req, nTicks, nReqs, historyLock, hcall, detailVars>>

TickSaveWrite(i) ==
    /\ tick[i].pc = "save_write"
    /\ storage' = Snapshot
    /\ dataLock' = "free"
    /\ tick' = [tick EXCEPT ![i] = IdleTick]
    /\ UNCHANGED <<heap, bots, fin, history, cache, histFile,
                   req, nTicks, nReqs, historyLock, hcall, detailVars>>

-----------------------------------------------------------------------------
(* The specification of the ledger, the tick and the requests *)

\* What fetch_tickers may return for the targets: last prices of listed pairs
TickerAnswers(targets) ==
    UNION {[S -> Prices] : S \in SUBSET (targets \cap Listed)}

TickNext(i) ==
    \/ TickStart(i)
    \/ \E tickers \in TickerAnswers(tick[i].targets) : TickFetched(i, tickers)
    \/ TickFetchFailed(i)
    \/ TickIterError(i)
    \/ \E b_sym \in Symbols : TickVisit(i, b_sym)
    \/ EngineSafetyOrder(i)
    \/ EngineTakeProfit(i)
    \/ EngineLoopRestart(i)
    \/ EngineStopLoss(i)
    \/ TickLoopEnd(i)
    \/ TickSaveAcquire(i)
    \/ TickSaveWrite(i)

ReqNext ==
    \/ \E symbol \in Symbols \cup {"---"}, amount \in Amounts,
          fetched \in BOOLEAN, p \in Prices :
          StartStrategyCheck(symbol, amount, fetched, p)
    \/ \E raw \in Symbols, investment \in Amounts, cfg \in CreateConfigs,
          fetched \in BOOLEAN, p \in Prices :
          CreateBotCheck(raw, investment, cfg, fetched, p)
    \/ InsertBot
    \/ \E symbol \in Symbols : StopBotRelease(symbol)
    \/ \E symbol \in Symbols : PanicSellRealize(symbol)
    \/ PanicSellLog
    \/ DeleteBot
    \/ ReqReturn
    \/ Dashboard
    \/ ReqSaveAcquire
    \/ ReqSaveWrite

Next ==
    \/ \E i \in TickSlots : TickNext(i)
    \/ TickSkipped
    \/ ReqNext

Spec == Init /\ [][Next]_vars

\* No thread is inside update_market_data or a request handler
Quiescent == req.pc = "idle" /\ \A i \in TickSlots : tick[i].pc = "idle"

\* investment summed over the running bots among those stored under the
\* symbols S
RECURSIVE RunningInvestment(_)
RunningInvestment(S) ==
    IF S = {} THEN Zero
    ELSE LET s == CHOOSE x \in S : TRUE
             bot == heap[bots[s]]
         IN  RAdd(IF bot.status = "running" THEN bot.investment ELSE Zero,
                  RunningInvestment(S \ {s}))

\* The operations one after the other: a tick starts when no request is being
\* handled and a request is taken when no tick is running, so the dict never
\* changes under the tick's loop
SeqTick(i) ==
    /\ req.pc = "idle"
    /\ \/ TickStart(i)
       \/ \E tickers \in TickerAnswers(tick[i].targets) : TickFetched(i, tickers)
       \/ TickFetchFailed(i)
       \/ \E b_sym \in Symbols : TickVisit(i, b_sym)
       \/ EngineSafetyOrder(i)
       \/ EngineTakeProfit(i)
       \/ EngineLoopRestart(i)
       \/ EngineStopLoss(i)
       \/ TickLoopEnd(i)
       \/ TickSaveAcquire(i)
       \/ TickSaveWrite(i)

SeqReq == (\A i \in TickSlots : tick[i].pc = "idle") /\ ReqNext

NextSeq == (\E i \in TickSlots : SeqTick(i)) \/ SeqReq

SpecSeq == Init /\ [][NextSeq]_vars

\* A recent history of n entries, as a run with that many safety orders on
\* bots that were stopped since has left it
RestoredHistory(n) == [k \in 1 .. n |-> Event("BTC-USDT", "DCA Buy", 1)]

\* load_data restores a workspace whose recent history is at or next to the cap
InitRecent ==
    /\ InitWorkspace
    /\ history \in {RestoredHistory(RecentCap - 1), RestoredHistory(RecentCap)}
    /\ storage = Snapshot
    /\ histFile = AbsentFile
    /\ calc = IdleCalc

SpecRecent == InitRecent /\ [][Next]_vars

-----------------------------------------------------------------------------
(* save_trade_history statement by statement, from two callers: the engine *)
(* (in the scheduler's thread) and panic_sell (in a request thread)        *)

\* The entries a caller passes: the engine's three kinds, panic_sell's one
CallerEvents(c) ==
    IF c = "engine"
    THEN {Event("BTC-USDT", "DCA Buy", 1), Event("BTC-USDT", "Take Profit", 0),
          Event("BTC-USDT", "Stop Loss", 0)}
    ELSE {Event("BTC-USDT", "Panic Sell", 0)}

CallsInProgress == Cardinality({c \in HistCallers : hcall[c].pc # "idle"})

\* save_trade_history(entry) is called: the thread reaches "with HISTORY_LOCK"
HistBegin(c, entry) ==
    /\ hcall[c].pc = "idle"
    /\ Len(histFile.new) + CallsInProgress < MaxAppends
    /\ hcall' = [hcall EXCEPT ![c] = [IdleCall EXCEPT !.pc = "lock", !.entry = entry]]
    /\ UNCHANGED <<ledgerVars, histFile, historyLock, detailVars>>

\* with HISTORY_LOCK: the lock is free and the caller takes it
HistAcquire(c) ==
    /\ hcall[c].pc = "lock"
    /\ LockFree(historyLock)
    /\ historyLock' = c
    /\ hcall' = [hcall EXCEPT ![c].pc = "read"]
    /\ UNCHANGED <<ledgerVars, histFile, detailVars>>

\* history = json.load(f) or []; history.append(entry); the trim
HistRead(c) ==
    /\ hcall[c].pc = "read"
    /\ hcall' = [hcall EXCEPT ![c].pc = "write",
                              ![c].list = TrimHistory(ListAppend(ReadHistory(histFile),
                                                                 hcall[c].entry))]
    /\ UNCHANGED <<ledgerVars, histFile, historyLock, detailVars>>

\* json.dump(history, f); the lock is released
HistWrite(c) ==
    /\ hcall[c].pc = "write"
    /\ histFile' = WriteHistory(hcall[c].list)
    /\ historyLock' = "free"
    /\ hcall' = [hcall EXCEPT ![c] = IdleCall]
    /\ UNCHANGED <<ledgerVars, detailVars>>

\* open or json.dump raised: the file is left as it was, or truncated;
\* the error is logged and the lock is released
HistWriteFailed(c, truncated) ==
    /\ hcall[c].pc = "write"
    /\ histFile' = IF truncated THEN [state |-> "corrupt", old |-> 0, new |-> <<>>]
                   ELSE histFile
    /\ historyLock' = "free"
    /\ hcall' = [hcall EXCEPT ![c] = [IdleCall EXCEPT !.error = TRUE]]
    /\ UNCHANGED <<ledgerVars, detailVars>>

\* The file as earlier runs may have left it
InitHist ==
    /\ InitLedger
    /\ histFile \in
         {AbsentFile, [state |-> "corrupt", old |-> 0, new |-> <<>>]} \cup
         {[state |-> "valid", old |-> n, new |-> <<>>] :
             n \in {0, HistoryCap - 2, HistoryCap - 1, HistoryCap}}

NextHist ==
    \E c \in HistCallers :
        \/ \E entry \in CallerEvents(c) : HistBegin(c, entry)
        \/ HistAcquire(c)
        \/ HistRead(c)
        \/ HistWrite(c)
        \/ \E truncated \in BOOLEAN : HistWriteFailed(c, truncated)

SpecHist == InitHist /\ [][NextHist]_vars

-----------------------------------------------------------------------------
(* save_data statement by statement, from its three callers *)

STORAGE_FILE == "bot_storage.json"

\* Mutant: json.dump writes straight into the canonical file
DumpToStorageFile == "bot_storage.json"

\* tmp_file = STORAGE_FILE + ".tmp"
tmp_file == "bot_storage.json.tmp"

\* A file json.dump(DATA, f) is writing or has written in save k of caller c
DumpedFile(c, k, complete) ==
    [exists |-> TRUE, complete |-> complete, save |-> <<c, k>>]

\* The two files after content is written to path
WriteFile(path, content) ==
    /\ storage' = IF path = STORAGE_FILE THEN content ELSE storage
    /\ tmpFile' = IF path = STORAGE_FILE THEN tmpFile ELSE content

\* shutil.move(src, STORAGE_FILE): a rename within the directory
MoveFile(src) ==
    IF src = STORAGE_FILE THEN UNCHANGED <<storage, tmpFile>>
    ELSE storage' = tmpFile /\ tmpFile' = AbsentStorage

\* Everything save_data neither reads nor writes
saveFrame == <<heap, bots, fin, history, cache, histFile, tick, req, nTicks, nReqs,
               historyLock, hcall, calc>>

\* save_data() is called: the thread reaches "with DATA_LOCK"
SaveCall(c) ==
    /\ scall[c].pc = "idle"
    /\ scall[c].id < MaxSaves
    /\ scall' = [scall EXCEPT ![c] = [pc |-> "lock", id |-> scall[c].id + 1,
                                      error |-> FALSE]]
    /\ UNCHANGED <<saveFrame, storage, tmpFile, dataLock>>

SaveAcquire(c) ==
    /\ scall[c].pc = "lock"
    /\ LockFree(dataLock)
    /\ dataLock' = c
    /\ scall' = [scall EXCEPT ![c].pc = "open"]
    /\ UNCHANGED <<saveFrame, storage, tmpFile>>

\* open(tmp_file, 'w'): the file is created or truncated
SaveOpen(c) ==
    /\ scall[c].pc = "open"
    /\ WriteFile(tmp_file, DumpedFile(c, scall[c].id, FALSE))
    /\ scall' = [scall EXCEPT ![c].pc = "dump"]
    /\ UNCHANGED <<saveFrame, dataLock>>

\* json.dump(DATA, f, indent=4) runs to its end and the file is closed
SaveDump(c) ==
    /\ scall[c].pc = "dump"
    /\ WriteFile(tmp_file, DumpedFile(c, scall[c].id, TRUE))
    /\ scall' = [scall EXCEPT ![c].pc = "move"]
    /\ UNCHANGED <<saveFrame, dataLock>>

\* shutil.move(tmp_file, STORAGE_FILE); the lock is released
SaveMove(c) ==
    /\ scall[c].pc = "move"
    /\ MoveFile(tmp_file)
    /\ dataLock' = "free"
    /\ scall' = [scall EXCEPT ![c].pc = "idle"]
    /\ UNCHANGED saveFrame

\* open, json.dump or shutil.move raised (json.dump partway, as when DATA
\* changes under it): the files stay as they are, the error is logged and the
\* lock is released
SaveFailed(c) ==
    /\ scall[c].pc \in {"open", "dump", "move"}
    /\ dataLock' = "free"
    /\ scall' = [scall EXCEPT ![c].pc = "idle", ![c].error = TRUE]
    /\ UNCHANGED <<saveFrame, storage, tmpFile>>

\* The storage file as an earlier run may have left it
InitSave ==
    /\ InitWorkspace
    /\ history = <<>>
    /\ histFile = AbsentFile
    /\ storage \in {AbsentStorage, DumpedFile("periodic_save", 0, TRUE)}
    /\ calc = IdleCalc

NextSave ==
    \E c \in SaveCallers :
        \/ SaveCall(c)
        \/ SaveAcquire(c)
        \/ SaveOpen(c)
        \/ SaveDump(c)
        \/ SaveMove(c)
        \/ SaveFailed(c)

SpecSave == InitSave /\ [][NextSave]_vars

-----------------------------------------------------------------------------
(* The two locks across the threads that take them: the tick's worker, the  *)
(* periodic_save job, the request handler that saves, and a second request  *)
(* thread serving /api/history                                              *)

\* The thread a user of HISTORY_LOCK runs in: the engine runs inside the tick,
\* panic_sell inside its request handler
ThreadOf(c) ==
    CASE c = "engine" -> "tick1"
      [] c = "panic_sell" -> "req"
      [] OTHER -> c

\* Mutant: save_trade_history calls save_data inside its with-block
HistoryNestsSave(f) == IF f = "save_trade_history" THEN {"save_data"} ELSE {}

\* The lock-taking functions called inside the with-block of f: none, in
\* save_data, save_trade_history and get_trade_history alike
CallsUnderLock(f) == {}

\* Thread t is inside save_trade_history, get_trade_history or save_data
InCall(t) ==
    \/ \E c \in HistUsers : ThreadOf(c) = t /\ hcall[c].pc # "idle"
    \/ t \in SaveCallers /\ scall[t].pc # "idle"

\* Thread t is inside the with-block of save_trade_history
InHistoryBlock(t) ==
    \E c \in HistCallers : ThreadOf(c) = t /\ hcall[c].pc \in {"read", "write"}

\* Thread t is at a point where it calls f: between two calls, or inside a
\* with-block that calls f
MayCall(t, f) ==
    \/ ~InCall(t)
    \/ InHistoryBlock(t) /\ f \in CallsUnderLock("save_trade_history")

\* A statement of the with-block of save_trade_history runs once the calls
\* made before it have returned
Returned(t) == t \in SaveCallers => scall[t].pc = "idle"

\* The entry a caller passes, whose content no lock depends on: the engine's
\* at a take-profit, panic_sell's own
LockEntry(c) ==
    Event("BTC-USDT", IF c = "engine" THEN "Take Profit" ELSE "Panic Sell", 0)

LockHistBegin(c, entry) ==
    /\ MayCall(ThreadOf(c), "save_trade_history")
    /\ Len(histFile.new) < MaxLockCalls
    /\ HistBegin(c, entry)

LockHistRead(c) == Returned(ThreadOf(c)) /\ HistRead(c)

LockHistWrite(c) == Returned(ThreadOf(c)) /\ HistWrite(c)

LockHistWriteFailed(c, truncated) ==
    Returned(ThreadOf(c)) /\ HistWriteFailed(c, truncated)

\* GET /api/history reaches "with HISTORY_LOCK"
GetHistoryCall ==
    /\ hcall["get_trade_history"].pc = "idle"
    /\ hcall' = [hcall EXCEPT !["get_trade_history"].pc = "lock"]
    /\ UNCHANGED <<ledgerVars, histFile, historyLock, detailVars>>

\* The file is read and the reply returned, or the read raised and was
\* logged: either way the with-block is left and the lock released
GetHistoryReturn ==
    /\ hcall["get_trade_history"].pc = "read"
    /\ historyLock' = "free"
    /\ hcall' = [hcall EXCEPT !["get_trade_history"] = IdleCall]
    /\ UNCHANGED <<ledgerVars, histFile, detailVars>>

LockSaveCall(c) ==
    /\ MayCall(c, "save_data")
    /\ scall[c].id < MaxLockCalls
    /\ SaveCall(c)

\* The statements of a with-block, which run whenever their thread does
HistBody(c) ==
    \/ LockHistRead(c)
    \/ LockHistWrite(c)
    \/ \E truncated \in BOOLEAN : LockHistWriteFailed(c, truncated)

SaveBody(c) == SaveOpen(c) \/ SaveDump(c) \/ SaveMove(c) \/ SaveFailed(c)

InitLocks == Init

NextLocks ==
    \/ \E c \in HistCallers :
        \/ LockHistBegin(c, LockEntry(c))
        \/ LockHistRead(c)
        \/ LockHistWrite(c)
        \/ \E truncated \in BOOLEAN : LockHistWriteFailed(c, truncated)
    \/ \E c \in HistUsers : HistAcquire(c)
    \/ GetHistoryCall
    \/ GetHistoryReturn
    \/ \E c \in SaveCallers :
        \/ LockSaveCall(c)
        \/ SaveAcquire(c)
        \/ SaveOpen(c)
        \/ SaveDump(c)
        \/ SaveMove(c)
        \/ SaveFailed(c)

\* Every thread keeps running (the interpreter switches threads at intervals)
\* and a thread blocked on a lock that is released again and again gets it
FairLocks ==
    /\ \A c \in HistCallers : WF_vars(HistBody(c))
    /\ WF_vars(GetHistoryReturn)
    /\ \A c \in HistUsers : SF_vars(HistAcquire(c))
    /\ \A c \in SaveCallers : WF_vars(SaveBody(c)) /\ SF_vars(SaveAcquire(c))

SpecLocks == InitLocks /\ [][NextLocks]_vars /\ FairLocks

-----------------------------------------------------------------------------
(* The entry-price averaging of a safety order, over a range of operands *)

\* bot['investment'] before the fill
AvgInvestments == {R(20, 1), R(61, 1), R(100, 1)}

\* so_volume; 0 when dca_config holds no safety_order or holds 0
AvgVolumes == {Zero, R(40, 1), R(42, 1)}

\* entry_price and current_price
AvgPrices == {R(1, 2), R(80, 1), R(99, 1), R(120, 1)}

\* bot['investment'] += so_volume
AvgAdd ==
    /\ calc.pc = "add"
    /\ calc' = [calc EXCEPT !.pc = "average",
                            !.investment = RAdd(calc.investment, calc.so_volume)]
    /\ UNCHANGED <<ledgerVars, histFile, historyLock, hcall, tmpFile, scall>>

\* bot['entry_price'] = bot['investment'] / (current_coins + new_coins)
AvgEntry ==
    /\ calc.pc = "average"
    /\ calc' = [calc EXCEPT !.pc = "done",
                            !.result = AveragedEntry(calc.investment, calc.so_volume,
                                                     calc.entry_price, calc.current_price)]
    /\ UNCHANGED <<ledgerVars, histFile, historyLock, hcall, tmpFile, scall>>

\* The engine has decided to fill a safety order
InitAvg ==
    /\ InitWorkspace
    /\ history = <<>>
    /\ storage = AbsentStorage
    /\ histFile = AbsentFile
    /\ calc \in {[IdleCalc EXCEPT !.pc = "add", !.prior = I, !.investment = I,
                                  !.so_volume = v, !.entry_price = e,
                                  !.current_price = q] :
                     I \in AvgInvestments, v \in AvgVolumes,
                     e \in AvgPrices, q \in AvgPrices}

NextAvg == AvgAdd \/ AvgEntry

SpecAvg == InitAvg /\ [][NextAvg]_vars

-----------------------------------------------------------------------------
(* Properties *)

Closed(bot) == bot.status \in {"completed", "stopped_loss"}

\* The engine call of worker i returns in this step
EngineReturns(i) == tick[i].pc = "sl" /\ tick'[i].pc = "loop"

\* This step puts an event of one of the kinds at the head of the recent history
Logged(kinds) ==
    /\ Len(history') = Len(history) + 1
    /\ history'[1].event \in kinds

\* C11: the recent-history list never holds more than 50 entries, whichever
\* engine events (DCA Buy, Take Profit, Loop Restart, Stop Loss) are logged.
C11_RecentHistoryCapped == Len(history) <= RecentCap

\* C12: bot_storage.json is never half-written: whenever it exists it is the
\* complete output of a save, and it changes only by the rename that ends a
\* save, to the complete output of that save, also when other saves fail
\* partway or wait for the lock.
C12_StorageNeverHalfWritten ==
    /\ [](storage.exists => storage.complete)
    /\ [][storage' # storage =>
             \E c \in SaveCallers :
                 /\ dataLock = c
                 /\ scall[c].pc = "move"
                 /\ storage' = DumpedFile(c, scall[c].id, TRUE)]_vars

\* A save is writing the temporary file while another caller waits for the
\* lock, after a save that completed and a save that failed partway.
C12_Witness ==
    /\ storage.exists
    /\ storage.save[2] >= 1
    /\ \E c, w, e \in SaveCallers :
           /\ scall[c].pc = "dump"
           /\ tmpFile = DumpedFile(c, scall[c].id, FALSE)
           /\ scall[w].pc = "lock"
           /\ scall[e].error

\* C13: start_strategy or create_bot for a symbol whose bot is running is
\* answered with an error, and neither that step nor the return of the error
\* changes a bot, the bot map or the financials.
C13_DuplicateRejected ==
    [][/\ (/\ req.pc = "idle" /\ req'.pc # "idle"
           /\ req'.op \in {"start_strategy", "create_bot"}
           /\ req'.symbol \in DOMAIN bots
           /\ heap[bots[req'.symbol]].status = "running") =>
              /\ req'.pc = "error"
              /\ heap' = heap /\ bots' = bots /\ fin' = fin
       /\ (req.pc = "error" /\ req' # req) =>
              /\ req' = IdleReq
              /\ heap' = heap /\ bots' = bots /\ fin' = fin]_vars

\* A creation request for the symbol of a running bot is being answered with
\* the duplicate error; the one bot's investment is all that is reserved.
C13_Witness ==
    /\ req.pc = "error"
    /\ req.op \in {"start_strategy", "create_bot"}
    /\ req.error \in {"already active", "Bot already running"}
    /\ req.symbol \in DOMAIN bots
    /\ heap[bots[req.symbol]].status = "running"
    /\ fin.reserved_capital = heap[bots[req.symbol]].investment

\* C14: start_strategy and create_bot go on to create a bot only if the price
\* fetch succeeded or the cache holds the symbol, and the entry price of the
\* bot they create is a price of the provider or one held in the cache.
C14_FetchFailureRejected ==
    [][(/\ req.pc = "idle" /\ req'.pc = "insert"
        /\ req'.op \in {"start_strategy", "create_bot"}) =>
           /\ req'.fetched \/ req'.symbol \in DOMAIN cache
           /\ req'.price \in {R(p, 1) : p \in Prices} \cup Values(cache)]_vars

\* C15: a tick whose fetch_tickers raised goes on to its loop with the cache
\* as it was; in that loop every running bot whose key is cached enters the
\* engine with the cached price; and the loop ends, unless the bots dict
\* changed size under it, only when every bot has been visited.
C15_FetchFailureContinues ==
    [][\A i \in TickSlots :
          /\ (tick[i].pc = "fetch" /\ tick'[i].pc # "fetch") =>
                 /\ tick'[i].pc = "loop"
                 /\ tick'[i].fetch_error => cache' = cache
          /\ (tick[i].pc = "loop" /\ tick[i].fetch_error /\ tick'[i] # tick[i]) =>
                 /\ \A b \in tick'[i].visited \ tick[i].visited :
                        LET key == IF b \in DOMAIN cache THEN b ELSE DashToSlash(b)
                        IN  (heap[bots[b]].status = "running" /\ key \in DOMAIN cache) =>
                                /\ tick'[i].pc = "so"
                                /\ tick'[i].bot = bots[b]
                                /\ tick'[i].current_price = cache[key]
                                /\ heap'[bots[b]].current_price = cache[key]
                 /\ (/\ tick'[i].pc \in {"idle", "save_acq"}
                     /\ Cardinality(DOMAIN bots) = tick[i].size) =>
                        DOMAIN bots \subseteq tick[i].visited]_vars

\* The second tick's fetch failed, and a running bot is inside the engine with
\* the price the first tick had cached.
C15_Witness ==
    \E i \in TickSlots :
        /\ nTicks = 2
        /\ tick[i].pc = "so"
        /\ tick[i].fetch_error
        /\ heap[tick[i].bot].status = "running"
        /\ heap[tick[i].bot].symbol \in DOMAIN cache
        /\ "ETH-USDT" \notin DOMAIN cache
        /\ tick[i].current_price = cache[heap[tick[i].bot].symbol]

\* C16: a starting tick requests the pair of every running bot from the
\* provider, and the loop passes every running bot to the engine whenever the
\* cache holds a price for its symbol in the BASE-QUOTE or the BASE/QUOTE form,
\* whichever form the bot is stored under.
C16_BothSeparatorForms ==
    [][\A i \in TickSlots :
          /\ (tick[i].pc = "idle" /\ tick'[i].pc = "fetch") =>
                 \A b \in DOMAIN bots :
                     heap[bots[b]].status = "running" =>
                         DashToSlash(heap[bots[b]].symbol) \in tick'[i].targets
          /\ (tick[i].pc = "loop" /\ tick'[i] # tick[i]) =>
                 \A b \in tick'[i].visited \ tick[i].visited :
                     (/\ heap[bots[b]].status = "running"
                      /\ {b, DashToSlash(b), SlashToDash(b)} \cap DOMAIN cache # {}) =>
                         /\ tick'[i].pc = "so"
                         /\ tick'[i].bot = bots[b]]_vars

\* C17: stop_bot on a symbol that has a bot lowers reserved_capital by the
\* bot's investment and then removes the bot, and no step of it changes
\* total_balance or net_pnl; on a symbol with no bot it answers with an error
\* and changes nothing.
C17_StopBotReleasesOnly ==
    [][/\ (req.pc = "idle" /\ req'.pc # "idle" /\ req'.op = "stop_bot") =>
              /\ heap' = heap /\ bots' = bots
              /\ IF req'.symbol \in DOMAIN bots
                 THEN /\ req'.pc = "del"
                      /\ fin' = [fin EXCEPT !.reserved_capital =
                                    RSub(@, heap[bots[req'.symbol]].investment)]
                 ELSE /\ req'.pc = "error"
                      /\ fin' = fin
       /\ (req.pc = "del" /\ req.op = "stop_bot" /\ req' # req) =>
              /\ DOMAIN bots' = DOMAIN bots \ {req.symbol}
              /\ \A b \in DOMAIN bots' : bots'[b] = bots[b] /\ heap'[bots[b]] = heap[bots[b]]
              /\ fin' = fin
       /\ (req.op = "stop_bot" /\ req' # req) => fin' = fin]_vars

\* stop_bot has released the investment of a bot that stood at a loss, and is
\* about to remove it: nothing is reserved any more and nothing was realized.
C17_Witness ==
    /\ req.pc = "del"
    /\ req.op = "stop_bot"
    /\ RLt(heap[bots[req.symbol]].pnl, Zero)
    /\ RLt(Zero, heap[bots[req.symbol]].investment)
    /\ fin = [total_balance |-> R(InitialBalance, 1), reserved_capital |-> Zero,
              net_pnl |-> Zero]

\* C18: total_balance and net_pnl change only in a take-profit close, a
\* stop-loss close or panic_sell's realization; the PnL refresh, a safety
\* order, the loop restart, a creation, stop_bot and a dashboard read leave
\* both as they are.
C18_OnlyRealizedEvents ==
    [][(fin'.total_balance # fin.total_balance \/ fin'.net_pnl # fin.net_pnl) =>
           \/ \E i \in TickSlots : tick[i].pc = "tp" /\ tick'[i].pc = "restart"
           \/ \E i \in TickSlots :
                  /\ tick[i].pc = "sl" /\ tick'[i].pc = "loop"
                  /\ Len(history') = Len(history) + 1
                  /\ history'[1].event = "Stop Loss"
           \/ req.pc = "idle" /\ req'.pc = "log" /\ req'.op = "panic_sell"]_vars

\* The dashboard reports a loss that a running bot, after a safety order, has
\* not realized, while the stored balance and net_pnl are the initial ones.
C18_Witness ==
    /\ req.pc = "reply"
    /\ req.op = "dashboard"
    /\ RLt(req.net_pnl, Zero)
    /\ fin.net_pnl = Zero
    /\ fin.total_balance = R(InitialBalance, 1)
    /\ \E b \in DOMAIN bots :
           /\ heap[bots[b]].status = "running"
           /\ heap[bots[b]].safety_orders_filled >= 1

\* C19 as stated: after a fill the entry price is
\* (I + so_volume) / (I/e + so_volume/p), and for p < e it lies strictly
\* between p and e.
C19_AveragedEntryAsStated ==
    calc.pc = "done" =>
        /\ calc.result =
               RDiv(RAdd(calc.prior, calc.so_volume),
                    RAdd(RDiv(calc.prior, calc.entry_price),
                         RDiv(calc.so_volume, calc.current_price)))
        /\ RLt(calc.current_price, calc.entry_price) =>
               /\ RLt(calc.current_price, calc.result)
               /\ RLt(calc.result, calc.entry_price)

\* C19, amended: after a fill the entry price is
\* (I + so_volume) / (I/e + so_volume/p); for p < e and so_volume > 0 it lies
\* strictly between p and e, and for so_volume = 0 it stays e.
C19_AveragedEntryBetween ==
    calc.pc = "done" =>
        /\ calc.result =
               RDiv(RAdd(calc.prior, calc.so_volume),
                    RAdd(RDiv(calc.prior, calc.entry_price),
                         RDiv(calc.so_volume, calc.current_price)))
        /\ (RLt(calc.current_price, calc.entry_price) /\ RLt(Zero, calc.so_volume)) =>
               /\ RLt(calc.current_price, calc.result)
               /\ RLt(calc.result, calc.entry_price)
        /\ calc.so_volume = Zero => calc.result = calc.entry_price

\* A fill of a positive volume below the entry price has been averaged, to a
\* price strictly between the two that is not their mean.
C19_Witness ==
    /\ calc.pc = "done"
    /\ RLt(Zero, calc.so_volume)
    /\ RLt(calc.current_price, calc.result)
    /\ RLt(calc.result, calc.entry_price)
    /\ calc.result # RDiv(RAdd(calc.entry_price, calc.current_price), R(2, 1))

\* C20: DATA_LOCK and HISTORY_LOCK are never held by one thread at the same
\* time, no thread waits for a lock it holds, and every thread that waits for
\* one of the locks eventually holds it.
C20_NoLockBlocksForever ==
    /\ [](\A t \in SaveCallers :
             ~(dataLock = t /\ historyLock # "free" /\ ThreadOf(historyLock) = t))
    /\ [](\A c \in SaveCallers : scall[c].pc = "lock" => dataLock # c)
    /\ [](\A c \in HistUsers :
             hcall[c].pc = "lock" =>
                 (historyLock = "free" \/ ThreadOf(historyLock) # ThreadOf(c)))
    /\ \A c \in SaveCallers : (scall[c].pc = "lock") ~> (dataLock = c)
    /\ \A c \in HistUsers : (hcall[c].pc = "lock") ~> (historyLock = c)

\* Both locks are held, by different threads, while two more threads wait, one
\* for each lock.
C20_Witness ==
    /\ dataLock = "req"
    /\ historyLock = "engine"
    /\ scall["periodic_save"].pc = "lock"
    /\ hcall["get_trade_history"].pc = "lock"

\* C1: in every reachable state every bot has
\* safety_orders_filled <= dca_config.max_safety_orders.
C1_SafetyOrdersWithinMax ==
    \A o \in ObjIds :
        heap[o].status # "free" =>
            heap[o].safety_orders_filled <= Get(heap[o].dca_config, "max_safety_orders", 15)

\* A bot that has filled all its safety orders went through the safety-order
\* step again with a drop beyond the next threshold, and nothing was filled.
C1_Witness ==
    \E i \in TickSlots :
        /\ tick[i].pc = "tp"
        /\ LET bot == heap[tick[i].bot]
               cfg == bot.dca_config
           IN  /\ bot.safety_orders_filled >= 1
               /\ bot.safety_orders_filled = Get(cfg, "max_safety_orders", 15)
               /\ bot.entry_price = tick[i].entry_price
               /\ RLt(tick[i].pnl_percent,
                      RNeg(RMul(cfg.price_deviation,
                                RPow(cfg.step_scale, bot.safety_orders_filled))))

\* C2: a tick passes only running bots to the engine; a step of a tick leaves
\* every completed or stopped_loss bot that is not inside a running engine
\* call as it was, and outside an engine call a tick's step changes neither
\* bots nor financials nor the histories.
C2_ClosedBotsNotEvaluated ==
    [][\A i \in TickSlots :
          tick'[i] # tick[i] =>
              /\ (tick[i].bot = 0 /\ tick'[i].bot # 0) =>
                     heap[tick'[i].bot].status = "running"
              /\ \A s \in DOMAIN bots :
                     (Closed(heap[bots[s]]) /\ tick[i].bot # bots[s]) =>
                         /\ s \in DOMAIN bots'
                         /\ bots'[s] = bots[s]
                         /\ heap'[bots[s]] = heap[bots[s]]
              /\ (tick[i].bot = 0 /\ tick'[i].bot = 0) =>
                     /\ heap' = heap /\ bots' = bots /\ fin' = fin
                     /\ history' = history /\ histFile' = histFile]_vars

\* A later tick with a cached price has gone past a closed bot and has called
\* the engine on nothing.
C2_Witness ==
    \E i \in TickSlots : \E s \in DOMAIN bots :
        /\ nTicks >= 2
        /\ tick[i].pc = "loop"
        /\ s \in tick[i].visited
        /\ ~tick[i].changes
        /\ Closed(heap[bots[s]])
        /\ s \in DOMAIN cache

\* C3: every take-profit or stop-loss close of the engine lowers
\* reserved_capital by exactly the bot's investment at that moment.
C3_CloseReleasesInvestment ==
    [][\A i \in TickSlots :
          (tick'[i] # tick[i] /\ Logged({"Take Profit", "Stop Loss"})) =>
              fin'.reserved_capital =
                  RSub(fin.reserved_capital, heap[tick[i].bot].investment)]_vars

\* A take-profit close has just been applied to a bot whose investment had
\* grown by a safety order.
C3_Witness ==
    \E i \in TickSlots :
        /\ tick[i].pc = "restart"
        /\ heap[tick[i].bot].safety_orders_filled >= 1
        /\ RLt(heap[tick[i].bot].dca_config.base_order, heap[tick[i].bot].investment)

\* C4: when the engine takes profit on a bot with loop_enabled, the restart
\* re-adds exactly base_order to reserved_capital and the bot ends the call
\* running, with investment = base_order, entry_price = the current price and
\* safety_orders_filled = 0.
C4_LoopRestartResets ==
    [][\A i \in TickSlots :
          LET o == tick[i].bot
              cfg == heap[o].dca_config
              base_order == Get(cfg, "base_order", R(20, 1))
              takes == RLe(Get(cfg, "take_profit", R(3, 2)), tick[i].pnl_percent)
              loops == Get(cfg, "loop_enabled", FALSE)
          IN  /\ (tick[i].pc = "restart" /\ tick'[i].pc = "sl" /\ loops) =>
                     fin'.reserved_capital = RAdd(fin.reserved_capital, base_order)
              /\ (EngineReturns(i) /\ takes /\ loops /\ o \in Values(bots)) =>
                     /\ heap'[o].status = "running"
                     /\ heap'[o].investment = base_order
                     /\ heap'[o].entry_price = tick[i].current_price
                     /\ heap'[o].safety_orders_filled = 0]_vars

\* C5: a call on a running bot with loop_enabled = false and
\* pnl_percent >= take_profit raises total_balance and net_pnl by exactly
\* investment * pnl_percent / 100 and ends with status = completed.
C5_TakeProfitCompletes ==
    [][\A i \in TickSlots :
          LET o == tick[i].bot
              cfg == heap[o].dca_config
              takes == RLe(Get(cfg, "take_profit", R(3, 2)), tick[i].pnl_percent)
              loops == Get(cfg, "loop_enabled", FALSE)
              gain == RDiv(RMul(heap[o].investment, tick[i].pnl_percent), Hundred)
          IN  /\ (tick[i].pc = "tp" /\ tick'[i].pc # "tp" /\ takes /\ ~loops) =>
                     /\ fin'.total_balance = RAdd(fin.total_balance, gain)
                     /\ fin'.net_pnl = RAdd(fin.net_pnl, gain)
              /\ (EngineReturns(i) /\ takes /\ ~loops /\ o \in Values(bots)) =>
                     /\ heap'[o].status = "completed"
                     /\ fin' = fin]_vars

\* C6: the safety-order step fills exactly one order when
\* k < max_safety_orders and pnl_percent < -(price_deviation * step_scale^k),
\* adding safety_order * volume_scale^k to investment and reserved_capital;
\* otherwise it changes nothing; and safety_orders_filled never grows in any
\* other step nor by more than one.
C6_OneSafetyOrderPerCall ==
    [][/\ \A i \in TickSlots :
             (tick[i].pc = "so" /\ tick'[i].pc = "tp") =>
                 LET o == tick[i].bot
                     cfg == heap[o].dca_config
                     k == heap[o].safety_orders_filled
                     drop == RMul(Get(cfg, "price_deviation", R(3, 2)),
                                  RPow(Get(cfg, "step_scale", R(3, 2)), k))
                     volume == RMul(Get(cfg, "safety_order", Zero),
                                    RPow(Get(cfg, "volume_scale", R(3, 2)), k))
                 IN  IF k < Get(cfg, "max_safety_orders", 15)
                        /\ RLt(tick[i].pnl_percent, RNeg(drop))
                     THEN /\ heap'[o].safety_orders_filled = k + 1
                          /\ heap'[o].investment = RAdd(heap[o].investment, volume)
                          /\ fin'.reserved_capital = RAdd(fin.reserved_capital, volume)
                     ELSE /\ heap'[o] = heap[o]
                          /\ fin' = fin
       /\ \A o \in ObjIds :
             (/\ heap[o].status # "free" /\ heap'[o].status # "free"
              /\ heap'[o].dca_config = heap[o].dca_config
              /\ heap'[o].safety_orders_filled > heap[o].safety_orders_filled) =>
                 /\ heap'[o].safety_orders_filled = heap[o].safety_orders_filled + 1
                 /\ \E i \in TickSlots :
                        tick[i].bot = o /\ tick[i].pc = "so" /\ tick'[i].pc = "tp"]_vars

\* The second safety order of a bot has just been filled, after a drop far
\* beyond its threshold.
C6_Witness ==
    \E i \in TickSlots :
        /\ tick[i].pc = "tp"
        /\ heap[tick[i].bot].safety_orders_filled = 2
        /\ heap[tick[i].bot].entry_price # tick[i].entry_price
        /\ RLt(tick[i].pnl_percent, R(-5, 1))

\* C7: the stop-loss step closes a bot only if stop_loss_enabled holds, the
\* bot is running when the step begins and the take-profit step of the same
\* call has not closed it.
C7_StopLossOnlyIfStillRunning ==
    [][\A i \in TickSlots :
          (EngineReturns(i) /\ Logged({"Stop Loss"})) =>
              LET cfg == heap[tick[i].bot].dca_config
              IN  /\ Get(cfg, "stop_loss_enabled", FALSE)
                  /\ heap[tick[i].bot].status = "running"
                  /\ ~RLe(Get(cfg, "take_profit", R(3, 2)), tick[i].pnl_percent)]_vars

TickInLedger(i) == tick[i].pc \in {"loop", "so", "tp", "restart", "sl", "save_write"}

ReqInLedger == req.pc \in {"insert", "log", "del", "save_write"}

\* C8: the tick and the request handlers are never inside their sections on
\* the Ledger (between their first read and their last write of it) at the
\* same time.
C8_LedgerSectionsExclusive ==
    Cardinality({i \in TickSlots : TickInLedger(i)})
        + (IF ReqInLedger THEN 1 ELSE 0) <= 1

\* C9: at most one execution of update_market_data is in progress.
C9_OneTickAtATime ==
    Cardinality({i \in TickSlots : tick[i].pc # "idle"}) <= 1

\* A run is inside the engine while the job is due again.
C9_Witness ==
    /\ nTicks < MaxTicks
    /\ \E i \in TickSlots : tick[i].pc = "so"
    /\ nTicks >= 1

\* C10: bot_history.json never holds more than 1000 entries, and every
\* write leaves the entries it found, less the oldest ones beyond the cap,
\* followed by the new entry.
C10_DurableLogCapped ==
    /\ [](histFile.state = "valid" => histFile.old + Len(histFile.new) <= HistoryCap)
    /\ [][\A c \in HistCallers :
             (hcall[c].pc = "write" /\ hcall'[c].pc = "idle" /\ ~hcall'[c].error) =>
                 LET found == IF histFile.state = "valid" THEN histFile ELSE AbsentFile
                     total == found.old + Len(found.new) + 1
                     m == Len(histFile'.new) - 1
                 IN  /\ histFile'.state = "valid"
                     /\ m >= 0
                     /\ m <= Len(found.new)
                     /\ histFile'.new[m + 1] = hcall[c].entry
                     /\ SubSeq(histFile'.new, 1, m) =
                            SubSeq(found.new, Len(found.new) - m + 1, Len(found.new))
                     /\ histFile'.old <= found.old
                     /\ (histFile'.old > 0 => m = Len(found.new))
                     /\ histFile'.old + m + 1 =
                            (IF total > HistoryCap THEN HistoryCap ELSE total)]_vars

\* The file is full, entries of both callers were appended and older entries
\* were dropped for them.
C10_Witness ==
    /\ histFile.state = "valid"
    /\ histFile.old + Len(histFile.new) = HistoryCap
    /\ histFile.old < HistoryCap - 2
    /\ \E a, b \in 1 .. Len(histFile.new) :
           histFile.new[a].event = "Panic Sell" /\ histFile.new[b].event = "Take Profit"

\* C21: between operations run one after the other, reserved_capital equals
\* the sum of investment over the running bots, and so is never negative.
C21_ReservedMatchesRunning ==
    Quiescent => fin.reserved_capital = RunningInvestment(DOMAIN bots)

\* C22: total_balance and net_pnl change only when a bot that is still
\* running is closed: by the engine's take-profit or stop-loss step, or by
\* panic_sell; a bot already closed is never realised again.
C22_RealizedAtMostOnce ==
    [][(fin'.total_balance # fin.total_balance \/ fin'.net_pnl # fin.net_pnl) =>
          \/ \E i \in TickSlots :
                /\ tick[i].pc \in {"tp", "sl"}
                /\ tick'[i] # tick[i]
                /\ heap[tick[i].bot].status = "running"
          \/ /\ req.pc = "idle"
             /\ req'.op = "panic_sell"
             /\ req'.symbol \in DOMAIN bots
             /\ heap[bots[req'.symbol]].status = "running"]_vars

\* C23: when an engine invocation ends on a bot that is still running, the
\* stored pnl is the percent difference between the stored current_price and
\* the stored entry_price, rounded to 2 decimals (0 after a loop restart).
C23_StoredPnlConsistent ==
    [][\A i \in TickSlots :
          (tick[i].pc = "sl" /\ tick'[i].pc = "loop" /\
           heap'[tick[i].bot].status = "running") =>
              LET bot == heap'[tick[i].bot]
              IN  bot.pnl = Round2(PnlPercent(bot.current_price, bot.entry_price))]_vars

\* C24: total_balance - net_pnl equals the initial balance in every
\* reachable state.
C24_BalanceMinusPnlConstant ==
    RSub(fin.total_balance, fin.net_pnl) = R(InitialBalance, 1)

\* A panic_sell has realised a profit or loss on top of what the engine's
\* closes had realised.
C24_Witness ==
    /\ req.op = "panic_sell"
    /\ req.pc = "log"
    /\ fin.net_pnl # Zero
    /\ fin.total_balance # R(InitialBalance, 1)

\* C25: every price in the market cache is one the provider returned, and
\* the engine evaluates a bot only against such a price.
C25_CacheHoldsProviderPrices ==
    LET provided == {R(p, 1) : p \in Prices}
    IN  /\ \A k \in DOMAIN cache : cache[k] \in provided
        /\ \A i \in TickSlots : tick[i].pc = "so" => tick[i].current_price \in provided

====
